---------------------------- MODULE Spec2Model ----------------------------
(***************************************************************************)
(* A model of pl_gpib: the Prologix GPIB-USB controller driver             *)
(* (pl_gpib/controller.py), its instruments (pl_gpib/instrument.py), the   *)
(* command registry (pl_gpib/commands.py) and the error table              *)
(* (pl_gpib/exc.py).                                                       *)
(*                                                                         *)
(* Python values are tagged records, so that None, 0, b'' and '' stay      *)
(* distinct.  Text and bytes are sequences of one-character strings, so    *)
(* that strip(), int(), str.format() and " ".join() are computed and not   *)
(* assumed.  Every method is an operator from a world record to a world    *)
(* record; a raised exception is the field exc of the result.              *)
(***************************************************************************)
EXTENDS Integers, Sequences, FiniteSets, TLC

VARIABLES
    ctl,      \* the GPIBController object, or "no controller yet"
    inst,     \* the GPIBInstrument objects
    bridge,   \* the Prologix bridge at the far end of the serial channel
    op,       \* the call made by the last step
    tx,       \* the lines the last call wrote to the serial channel
    rd,       \* the reads the last call made on the serial channel
    ret,      \* what the last call returned
    exc,      \* the exception the last call raised, or NoExc
    threads   \* where each thread is in its call of Instrument.write

vars == <<ctl, inst, bridge, op, tx, rd, ret, exc, threads>>

---------------------------------------------------------------------------
(* Python values *)

NoneV == [t |-> "None"]
IntV(n) == [t |-> "int", v |-> n]
BytesV(b) == [t |-> "bytes", v |-> b]
StrV(s) == [t |-> "str", v |-> s]
BoolV(b) == [t |-> "bool", v |-> b]
\* a reference to the one GPIBController of the model
CtlRef == [t |-> "GPIBController"]

IsNone(x) == x.t = "None"

\* Python truthiness, as `x or y` and `if x:` use it
Truthy(x) ==
    CASE x.t = "None" -> FALSE
      [] x.t = "int" -> x.v # 0
      [] x.t = "bool" -> x.v
      [] x.t \in {"bytes", "str"} -> Len(x.v) > 0
      [] OTHER -> TRUE

\* Python's `x or y`
PyOr(x, y) == IF Truthy(x) THEN x ELSE y

NoExc == "none"

---------------------------------------------------------------------------
(* Text: bytes.strip(), int(), str(int) *)

Whitespace == {" ", "\t", "\n", "\r", "\f"}
Digits == <<"0", "1", "2", "3", "4", "5", "6", "7", "8", "9">>
DigitSet == {Digits[k] : k \in 1..10}
DigitVal(ch) == (CHOOSE k \in 1..10 : Digits[k] = ch) - 1

Take(s, n) == SubSeq(s, 1, IF n < Len(s) THEN n ELSE Len(s))
Drop(s, n) == SubSeq(s, n + 1, Len(s))
StartsWith(s, p) == Len(p) <= Len(s) /\ SubSeq(s, 1, Len(p)) = p

RECURSIVE lstrip(_)
lstrip(s) ==
    IF s # <<>> /\ Head(s) \in Whitespace THEN lstrip(Tail(s)) ELSE s

RECURSIVE rstrip(_)
rstrip(s) ==
    IF s # <<>> /\ s[Len(s)] \in Whitespace
    THEN rstrip(SubSeq(s, 1, Len(s) - 1))
    ELSE s

\* bytes.strip(): leading and trailing ASCII whitespace removed, inner kept
strip(s) == rstrip(lstrip(s))

RECURSIVE DigitsValue(_)
DigitsValue(s) ==
    IF s = <<>> THEN 0
    ELSE 10 * DigitsValue(SubSeq(s, 1, Len(s) - 1)) + DigitVal(s[Len(s)])

AllDigits(s) == s # <<>> /\ \A k \in 1..Len(s) : s[k] \in DigitSet

\* the digits of an int() literal, after its sign
ParseDigits(body, negative) ==
    IF AllDigits(body)
    THEN [ok |-> TRUE,
          v |-> IF negative THEN 0 - DigitsValue(body) ELSE DigitsValue(body)]
    ELSE [ok |-> FALSE, err |-> "ValueError"]

\* an int() literal without surrounding whitespace: an optional sign, digits
ParseSigned(b) ==
    IF b # <<>> /\ Head(b) \in {"+", "-"}
    THEN ParseDigits(Tail(b), Head(b) = "-")
    ELSE ParseDigits(b, FALSE)

\* int() of text: surrounding whitespace is allowed
ParseInt(s) == ParseSigned(strip(s))

\* int(x) of a Python value
PyInt(x) ==
    CASE x.t = "int" -> [ok |-> TRUE, v |-> x.v]
      [] x.t = "bool" -> [ok |-> TRUE, v |-> IF x.v THEN 1 ELSE 0]
      [] x.t \in {"bytes", "str"} -> ParseInt(x.v)
      [] OTHER -> [ok |-> FALSE, err |-> "TypeError"]

RECURSIVE NatToStr(_)
NatToStr(n) ==
    IF n < 10 THEN <<Digits[n + 1]>>
    ELSE NatToStr(n \div 10) \o <<Digits[(n % 10) + 1]>>

\* str(n), as '{}'.format(n) renders an int
IntToStr(n) == IF n < 0 THEN <<"-">> \o NatToStr(0 - n) ELSE NatToStr(n)

---------------------------------------------------------------------------
(* pl_gpib/exc.py *)

UnrecognizedCommand ==
    <<"U", "n", "r", "e", "c", "o", "g", "n", "i", "z", "e", "d", " ",
      "C", "o", "m", "m", "a", "n", "d">>

\* the dict of bridge error strings: bytes -> exception class
ERROR_MESSAGES ==
    [k \in {UnrecognizedCommand} |-> "UnrecognizedCommandError"]

---------------------------------------------------------------------------
(* The world a call runs in, and what a call leaves behind *)

Raise(w, e) == [w EXCEPT !.exc = e, !.ret = NoneV]
Raised(w) == w.exc # NoExc
Return(w, x) == [w EXCEPT !.ret = x]

---------------------------------------------------------------------------
(* The serial channel and the bridge behind it *)

DEFAULT_EOI == <<"\n">>

ReadEoiText == <<"+", "+", "r", "e", "a", "d", " ", "e", "o", "i">>
AddrText == <<"+", "+", "a", "d", "d", "r">>
ModeText == <<"+", "+", "m", "o", "d", "e">>
VerText == <<"+", "+", "v", "e", "r">>
CRLF == <<"\r", "\n">>

\* '++addr {}'.format(address)
AddrFormat(n) == AddrText \o <<" ">> \o IntToStr(n)
\* '++mode {}'.format(mode)
ModeFormat(n) == ModeText \o <<" ">> \o IntToStr(n)

\* the bridge sets `field` to the number a line gives, if it gives one
BridgeSet(b, field, arg) == IF arg.ok THEN [b EXCEPT ![field] = arg.v] ELSE b

\* the modes of the bridge: DEVICE and CONTROLLER
BridgeModes == {0, 1}

\* a mode that is none of the two is not taken
BridgeMode(b, arg) ==
    IF arg.ok /\ arg.v \in BridgeModes THEN BridgeSet(b, "mode", arg) ELSE b

\* The bridge takes one line: `++addr n` selects bus address n, `++mode n`
\* sets the mode, every other line leaves the bridge's settings alone.
BridgeLine(b, body) ==
    IF StartsWith(body, AddrText \o <<" ">>)
    THEN BridgeSet(b, "addr", ParseInt(Drop(body, Len(AddrText) + 1)))
    ELSE IF StartsWith(body, ModeText \o <<" ">>)
    THEN BridgeMode(b, ParseInt(Drop(body, Len(ModeText) + 1)))
    ELSE b

BridgeReceive(b, line) == BridgeLine(b, strip(line))

\* The channel accepts every write (accepts is None) or only so many more
\* (an int); a write it does not accept raises and nothing is on the wire.
Accepted(accepts) ==
    IF accepts.t = "int" THEN IntV(accepts.v - 1) ELSE accepts

\* self.serial.write(data): the line is on the wire and the bridge has it
SerialWrite(w, data) ==
    IF w.accepts = IntV(0) THEN Raise(w, "SerialException")
    ELSE [w EXCEPT !.tx = Append(@, data), !.bridge = BridgeReceive(@, data),
                   !.accepts = Accepted(@)]

\* self.serial.read(n): at most n of the bytes that arrive before the timeout
SerialRead(avail, n) == Take(avail, n)

RECURSIVE UpToNewline(_)
UpToNewline(s) ==
    IF s = <<>> THEN <<>>
    ELSE IF Head(s) = "\n" THEN <<"\n">>
    ELSE <<Head(s)>> \o UpToNewline(Tail(s))

\* self.serial.readline(): the bytes up to and including the first newline
SerialReadline(avail) == UpToNewline(avail)

---------------------------------------------------------------------------
(* pl_gpib/controller.py: GPIBController.  A method whose body goes on    *)
(* after a call is split there: the operator named <method>_<step> is the *)
(* rest of the body, given the world the call left.                       *)

GPIBController_write(w, command) ==
    SerialWrite(w, command \o DEFAULT_EOI)

\* rd gains one read: its kind and size, the address the bridge had
\* selected, how many lines the call had written, the bytes received
Logged(w, kind, n, got) ==
    [w EXCEPT !.rd = Append(@, [kind |-> kind, n |-> n, at |-> w.bridge.addr,
                                after |-> Len(w.tx), got |-> got])]

\* read(): the error check on the stripped bytes, and the return
read_check(w, resp) ==
    IF resp \in DOMAIN ERROR_MESSAGES
    THEN Raise(w, ERROR_MESSAGES[resp])
    ELSE Return(w, BytesV(resp))

\* read() without .strip()
read_unstripped(w, n, raw) ==
    IF Raised(w) THEN w ELSE read_check(Logged(w, "read", n, raw), raw)

\* read(): resp = self.serial.read(n).strip()
read_strip(w, n, raw) ==
    IF Raised(w) THEN w
    ELSE read_check(Logged(w, "read", n, raw), strip(raw))

GPIBController_read(w, n, avail) ==
    read_strip(GPIBController_write(w, ReadEoiText), n, SerialRead(avail, n))

\* readline(): the error check on the line as received, then the strip
readline_check(w, resp) ==
    IF resp \in DOMAIN ERROR_MESSAGES
    THEN Raise(w, ERROR_MESSAGES[resp])
    ELSE Return(w, BytesV(strip(resp)))

readline_line(w, resp) ==
    IF Raised(w) THEN w
    ELSE readline_check(Logged(w, "readline", -1, resp), resp)

GPIBController_readline(w, avail) ==
    readline_line(GPIBController_write(w, ReadEoiText), SerialReadline(avail))

query_address_store(w, address) ==
    IF ~address.ok THEN Raise(w, address.err)
    ELSE Return([w EXCEPT !.ctl.address = IntV(address.v)], IntV(address.v))

query_address_int(w) ==
    IF Raised(w) THEN w
    ELSE IF IsNone(w.ret) THEN Return(w, NoneV)
    ELSE query_address_store(w, PyInt(w.ret))

GPIBController_query_address(w, avail) ==
    query_address_int(
        GPIBController_read(GPIBController_write(w, AddrText), 10, avail))

\* set_address() without self.address = address
set_address_stale(w, n) == IF Raised(w) THEN w ELSE Return(w, NoneV)

set_address_store(w, n) ==
    IF Raised(w) THEN w
    ELSE Return([w EXCEPT !.ctl.address = IntV(n)], NoneV)

\* set_address() with self.address = address before self.write(...)
set_address_eager(w, a) ==
    IF ~a.ok THEN Raise(w, a.err)
    ELSE GPIBController_write([w EXCEPT !.ctl.address = IntV(a.v)],
                              AddrFormat(a.v))

set_address_write(w, a) ==
    IF ~a.ok THEN Raise(w, a.err)
    ELSE set_address_store(GPIBController_write(w, AddrFormat(a.v)), a.v)

GPIBController_set_address(w, address) ==
    set_address_write(w, PyInt(address))

query_mode_store(w, mode) ==
    IF ~mode.ok THEN Raise(w, mode.err)
    ELSE Return([w EXCEPT !.ctl.mode = IntV(mode.v)], IntV(mode.v))

query_mode_int(w) ==
    IF Raised(w) THEN w
    ELSE IF IsNone(w.ret) THEN Return(w, NoneV)
    ELSE query_mode_store(w, PyInt(w.ret))

GPIBController_query_mode(w, avail) ==
    query_mode_int(
        GPIBController_read(GPIBController_write(w, ModeText), 1, avail))

set_mode_store(w, n) ==
    IF Raised(w) THEN w
    ELSE Return([w EXCEPT !.ctl.mode = IntV(n)], NoneV)

set_mode_write(w, m) ==
    IF ~m.ok THEN Raise(w, m.err)
    ELSE set_mode_store(GPIBController_write(w, ModeFormat(m.v)), m.v)

GPIBController_set_mode(w, mode) == set_mode_write(w, PyInt(mode))

\* resp.decode(self.encoding): ASCII bytes become the same characters
query_version_store(w) ==
    IF Raised(w) THEN w
    ELSE IF IsNone(w.ret) THEN Return(w, NoneV)
    ELSE Return([w EXCEPT !.ctl.version = StrV(w.ret.v)], w.ret)

GPIBController_query_version(w, avail) ==
    query_version_store(
        GPIBController_read(GPIBController_write(w, VerText), 100, avail))

\* the object as __init__ has it before the first query
EmptyController ==
    [t |-> "GPIBController", address |-> NoneV, mode |-> NoneV,
     version |-> NoneV, instruments |-> <<>>]

init_done(w) == IF Raised(w) THEN w ELSE Return(w, CtlRef)

init_query_address(w, addrAvail) ==
    IF Raised(w) THEN w
    ELSE init_done(GPIBController_query_address(w, addrAvail))

init_set_mode(w, m, addrAvail) ==
    IF ~m.ok THEN Raise(w, m.err)
    ELSE init_query_address(GPIBController_set_mode(w, IntV(m.v)), addrAvail)

\* __init__ with self.query_address() before self.set_mode(mode)
init_set_mode_late(w, m) ==
    IF Raised(w) THEN w
    ELSE IF ~m.ok THEN Raise(w, m.err)
    ELSE init_done(GPIBController_set_mode(w, IntV(m.v)))

init_mode_late(w, mode, addrAvail) ==
    IF Raised(w) THEN w
    ELSE init_set_mode_late(
             GPIBController_query_address(w, addrAvail),
             IF ~IsNone(mode) THEN PyInt(mode) ELSE [ok |-> TRUE, v |-> 1])

\* mode = int(mode) if mode is not None else 1
init_mode(w, mode, addrAvail) ==
    IF Raised(w) THEN w
    ELSE init_set_mode(
             w, IF ~IsNone(mode) THEN PyInt(mode) ELSE [ok |-> TRUE, v |-> 1],
             addrAvail)

\* GPIBController(port, mode=mode, connection=channel)
GPIBController_init(w, mode, verAvail, addrAvail) ==
    init_mode(
        GPIBController_query_version([w EXCEPT !.ctl = EmptyController], verAvail),
        mode, addrAvail)

---------------------------------------------------------------------------
(* pl_gpib/commands.py *)

DEFAULT_QUERY_READ == 100

\* a Python dict as a function; d[k] = v
EmptyDict == [k \in {} |-> NoneV]
Put(d, k, v) == [x \in DOMAIN d \cup {k} |-> IF x = k THEN v ELSE d[x]]

\* str(a) of a call argument
PyStr(a) ==
    CASE a.t = "int" -> IntToStr(a.v)
      [] a.t \in {"str", "bytes"} -> a.v
      [] OTHER -> <<"N", "o", "n", "e">>

RECURSIVE Join(_, _)
\* sep.join(parts)
Join(parts, sep) ==
    IF parts = <<>> THEN <<>>
    ELSE IF Len(parts) = 1 THEN parts[1]
    ELSE parts[1] \o sep \o Join(Tail(parts), sep)

CommandString(name, command) ==
    [cls |-> "CommandString", name |-> name, command_text |-> command]

\* QueryString(*args): a third positional argument is read_bytes
QueryString(args) ==
    [cls |-> "QueryString", name |-> args[1], command_text |-> args[2],
     read_bytes |-> IF Len(args) > 2 THEN args[3] ELSE DEFAULT_QUERY_READ]

\* isinstance(command, QueryString)
IsQueryString(command) == command.cls = "QueryString"

\* __call__ that joins the arguments with spaces but puts none after the
\* command text
CommandString_call_glued(command, args) ==
    [ok |-> TRUE,
     v |-> command.command_text \o
           Join([k \in 1..Len(args) |-> PyStr(args[k])], <<" ">>)]

\* CommandString.__call__(*args)
CommandString_call(command, args) ==
    [ok |-> TRUE,
     v |-> Join(<<command.command_text>> \o
                [k \in 1..Len(args) |-> PyStr(args[k])], <<" ">>)]

\* QueryString.__call__(): it takes no argument besides self
QueryString_call(command, args) ==
    IF Len(args) > 0 THEN [ok |-> FALSE, err |-> "TypeError"]
    ELSE [ok |-> TRUE, v |-> command.command_text \o <<"?">>]

\* command(*args)
Call(command, args) ==
    IF IsQueryString(command) THEN QueryString_call(command, args)
    ELSE CommandString_call(command, args)

\* CommandContainer(instrument): commands is the dict of entries, attrs the
\* methods that add_command binds on the container by name
CommandContainer_init == [commands |-> EmptyDict, attrs |-> EmptyDict]

\* add_command without the test `command.name not in self.commands`
CommandContainer_add_command_overwrite(reg, command) ==
    [commands |-> Put(reg.commands, command.name, command),
     attrs |-> Put(reg.attrs, command.name, command)]

CommandContainer_add_command(reg, command) ==
    IF command.name \notin DOMAIN reg.commands
    THEN [commands |-> Put(reg.commands, command.name, command),
          attrs |-> Put(reg.attrs, command.name, command)]
    ELSE reg

\* a tuple, and isinstance(query_data, str)
TupleV(items) == [t |-> "tuple", v |-> items]
IsStr(x) == x.t = "str"

\* Command(name, query_data) or Command(name, *query_data) in add_commands:
\* CommandString takes name and command, QueryString also read_bytes
Build(query, name, data) ==
    IF IsStr(data)
    THEN [ok |-> TRUE,
          v |-> IF query THEN QueryString(<<name, data.v>>)
                ELSE CommandString(name, data.v)]
    ELSE IF query /\ Len(data.v) \in {1, 2}
    THEN [ok |-> TRUE, v |-> QueryString(<<name>> \o data.v)]
    ELSE IF ~query /\ Len(data.v) = 1
    THEN [ok |-> TRUE, v |-> CommandString(name, data.v[1])]
    ELSE [ok |-> FALSE, err |-> "TypeError"]

\* the characters of the names, and their order in ASCII
Spell ==
    [ ident |-> <<"i", "d", "e", "n", "t">>,
      identification |-> <<"i", "d", "e", "n", "t", "i", "f", "i", "c", "a", "t", "i", "o", "n">>,
      event_status_enable |-> <<"e", "v", "e", "n", "t", "_", "s", "t", "a", "t", "u", "s", "_", "e", "n", "a", "b", "l", "e">>,
      event_status_register |-> <<"e", "v", "e", "n", "t", "_", "s", "t", "a", "t", "u", "s", "_", "r", "e", "g", "i", "s", "t", "e", "r">>,
      operation_complete |-> <<"o", "p", "e", "r", "a", "t", "i", "o", "n", "_", "c", "o", "m", "p", "l", "e", "t", "e">>,
      options |-> <<"o", "p", "t", "i", "o", "n", "s">>,
      service_request_enable |-> <<"s", "e", "r", "v", "i", "c", "e", "_", "r", "e", "q", "u", "e", "s", "t", "_", "e", "n", "a", "b", "l", "e">>,
      read_status_byte |-> <<"r", "e", "a", "d", "_", "s", "t", "a", "t", "u", "s", "_", "b", "y", "t", "e">>,
      self_test |-> <<"s", "e", "l", "f", "_", "t", "e", "s", "t">>,
      clear |-> <<"c", "l", "e", "a", "r">>,
      recall_instrument_setting |-> <<"r", "e", "c", "a", "l", "l", "_", "i", "n", "s", "t", "r", "u", "m", "e", "n", "t", "_", "s", "e", "t", "t", "i", "n", "g">>,
      reset |-> <<"r", "e", "s", "e", "t">>,
      save |-> <<"s", "a", "v", "e">>,
      wait |-> <<"w", "a", "i", "t">>,
      measure |-> <<"m", "e", "a", "s", "u", "r", "e">>,
      configure |-> <<"c", "o", "n", "f", "i", "g", "u", "r", "e">>,
      abort |-> <<"a", "b", "o", "r", "t">>,
      zero |-> <<"z", "e", "r", "o">> ]
Alphabet ==
    <<"_", "a", "b", "c", "d", "e", "f", "g", "h", "i", "j", "k", "l", "m",
      "n", "o", "p", "q", "r", "s", "t", "u", "v", "w", "x", "y", "z">>
Ord(ch) == CHOOSE k \in 1..Len(Alphabet) : Alphabet[k] = ch

RECURSIVE LexLess(_, _)
\* a < b of two str
LexLess(a, b) ==
    IF b = <<>> THEN FALSE
    ELSE IF a = <<>> THEN TRUE
    ELSE IF Head(a) = Head(b) THEN LexLess(Tail(a), Tail(b))
    ELSE Ord(Head(a)) < Ord(Head(b))

Least(S) == CHOOSE x \in S : \A y \in S \ {x} : LexLess(Spell[x], Spell[y])

RECURSIVE PySorted(_)
\* sorted(list(keys))
PySortedFrom(S, x) == <<x>> \o PySorted(S \ {x})
PySorted(S) == IF S = {} THEN <<>> ELSE PySortedFrom(S, Least(S))

ListV(items) == [t |-> "list", v |-> items]

CommandContainer_list_all(reg) == ListV(PySorted(DOMAIN reg.commands))

---------------------------------------------------------------------------
(* pl_gpib/instrument.py: GPIBInstrument *)

IDN == <<"*", "I", "D", "N">>
ESE == <<"*", "E", "S", "E">>
ESR == <<"*", "E", "S", "R">>
OPC == <<"*", "O", "P", "C">>
OPT == <<"*", "O", "P", "T">>
SRE == <<"*", "S", "R", "E">>
STB == <<"*", "S", "T", "B">>
TST == <<"*", "T", "S", "T">>
CLS == <<"*", "C", "L", "S">>
RCL == <<"*", "R", "C", "L">>
RST == <<"*", "R", "S", "T">>
SAV == <<"*", "S", "A", "V">>
WAI == <<"*", "W", "A", "I">>

\* the class-level dicts, as their items in source order: key, value
base_queries ==
    << [key |-> "ident", value |-> QueryString(<<"identification", IDN, 100>>)],
       [key |-> "event_status_enable",
        value |-> QueryString(<<"event_status_enable", ESE>>)],
       [key |-> "event_status_register",
        value |-> QueryString(<<"event_status_register", ESR>>)],
       [key |-> "operation_complete",
        value |-> QueryString(<<"operation_complete", OPC>>)],
       [key |-> "options", value |-> QueryString(<<"options", OPT>>)],
       [key |-> "service_request_enable",
        value |-> QueryString(<<"service_request_enable", SRE>>)],
       [key |-> "read_status_byte",
        value |-> QueryString(<<"read_status_byte", STB>>)],
       [key |-> "self_test", value |-> QueryString(<<"self_test", TST>>)] >>

base_commands ==
    << [key |-> "clear", value |-> CommandString("clear", CLS)],
       [key |-> "event_status_enable",
        value |-> CommandString("event_status_enable", ESE)],
       [key |-> "operation_complete",
        value |-> CommandString("operation_complete", OPC)],
       [key |-> "recall_instrument_setting",
        value |-> CommandString("recall_instrument_setting", RCL)],
       [key |-> "reset", value |-> CommandString("reset", RST)],
       [key |-> "save", value |-> CommandString("save", SAV)],
       [key |-> "service_request_enable",
        value |-> CommandString("service_request_enable", SRE)],
       [key |-> "wait", value |-> CommandString("wait", WAI)] >>

\* The classes of the model: GPIBInstrument itself, whose `queries` and
\* `commands` are empty, and a subclass Meter that supplies its own.
Classes == {"GPIBInstrument", "Meter"}

MEAS == <<":", "M", "E", "A", "S">>
CONF == <<":", "C", "O", "N", "F">>

\* A second subclass, Scope, whose tables reuse names of the common set
\* with texts of its own.
ID == <<":", "I", "D">>
TEST == <<":", "T", "E", "S", "T">>
SYSTRST == <<":", "S", "Y", "S", "T", ":", "R", "S", "T">>

queries(cls) ==
    IF cls = "Meter"
    THEN << [key |-> "ident", value |-> QueryString(<<"ident", IDN, 100>>)],
            [key |-> "measure", value |-> QueryString(<<"measure", MEAS, -1>>)] >>
    ELSE IF cls = "Scope"
    THEN << [key |-> "ident", value |-> QueryString(<<"ident", ID, 50>>)],
            [key |-> "self_test", value |-> QueryString(<<"self_test", TEST>>)],
            [key |-> "measure", value |-> QueryString(<<"measure", MEAS, -1>>)] >>
    ELSE <<>>

commands(cls) ==
    IF cls = "Meter"
    THEN << [key |-> "configure", value |-> CommandString("configure", CONF)] >>
    ELSE IF cls = "Scope"
    THEN << [key |-> "reset", value |-> CommandString("reset", SYSTRST)],
            [key |-> "configure", value |-> CommandString("configure", CONF)] >>
    ELSE <<>>

\* dict.values()
Values(items) == [k \in 1..Len(items) |-> items[k].value]

RECURSIVE AddAll(_, _)
\* for command in values: container.add_command(command)
AddAll(reg, values) ==
    IF values = <<>> THEN reg
    ELSE AddAll(CommandContainer_add_command(reg, Head(values)), Tail(values))

GPIBInstrument_init_query(cls) ==
    AddAll(AddAll(CommandContainer_init, Values(base_queries)),
           Values(queries(cls)))

GPIBInstrument_init_command(cls) ==
    AddAll(AddAll(CommandContainer_init, Values(base_commands)),
           Values(commands(cls)))

\* cls(address=address, name=name, connection=connection)
GPIBInstrument_init(cls, address, name, connection) ==
    [cls |-> cls, address |-> address, name |-> name,
     connection |-> connection,
     query |-> GPIBInstrument_init_query(cls),
     command |-> GPIBInstrument_init_command(cls)]

write_forward(w, command) ==
    IF Raised(w) THEN w
    ELSE Return(GPIBController_write(w, command), NoneV)

\* write() without the comparison of addresses: the bridge is re-addressed
\* before every payload
GPIBInstrument_write_readdress(w, i, command) ==
    IF IsNone(w.inst[i].connection) THEN Return(w, NoneV)
    ELSE write_forward(GPIBController_set_address(w, w.inst[i].address), command)

\* write() that never selects the instrument's address
GPIBInstrument_write_direct(w, i, command) ==
    IF IsNone(w.inst[i].connection) THEN Return(w, NoneV)
    ELSE write_forward(w, command)

GPIBInstrument_write(w, i, command) ==
    IF IsNone(w.inst[i].connection) THEN Return(w, NoneV)
    ELSE write_forward(
             IF w.inst[i].address # w.ctl.address
             THEN GPIBController_set_address(w, w.inst[i].address)
             ELSE w,
             command)

\* set_address() that also selects the address on the attached controller
set_address_local_forward(w, i, a) ==
    IF ~a.ok THEN Raise(w, a.err)
    ELSE Return([(IF IsNone(w.inst[i].connection) THEN w
                  ELSE GPIBController_set_address(w, IntV(a.v)))
                    EXCEPT !.inst[i].address = IntV(a.v)],
                NoneV)

set_address_local(w, i, a) ==
    IF ~a.ok THEN Raise(w, a.err)
    ELSE Return([w EXCEPT !.inst[i].address = IntV(a.v)], NoneV)

GPIBInstrument_set_address(w, i, address) ==
    set_address_local(w, i, PyInt(address))

GPIBInstrument_read(w, i, n, avail) ==
    IF IsNone(w.inst[i].connection) THEN Return(w, NoneV)
    ELSE GPIBController_read(w, n, avail)

GPIBInstrument_readline(w, i, avail) ==
    IF IsNone(w.inst[i].connection) THEN Return(w, NoneV)
    ELSE GPIBController_readline(w, avail)

\* wrapper that reads every query with read(DEFAULT_QUERY_READ)
wrapper_read_fixed(w, i, command, avail) ==
    IF Raised(w) THEN w
    ELSE IF IsQueryString(command)
    THEN GPIBInstrument_read(w, i, DEFAULT_QUERY_READ, avail)
    ELSE Return(w, NoneV)

\* wrapper: after the write, the read of a query and the return
wrapper_read(w, i, command, avail) ==
    IF Raised(w) THEN w
    ELSE IF IsQueryString(command)
    THEN IF command.read_bytes < 0
         THEN GPIBInstrument_readline(w, i, avail)
         ELSE GPIBInstrument_read(w, i, command.read_bytes, avail)
    ELSE Return(w, NoneV)

\* wrapper: self.instrument.write(command(*args))
wrapper_write(w, i, command, text, avail) ==
    IF ~text.ok THEN Raise(w, text.err)
    ELSE wrapper_read(GPIBInstrument_write(w, i, text.v), i, command, avail)

\* the method add_command binds: wrapper(self, *args)
wrapper(w, i, command, args, avail) ==
    wrapper_write(w, i, command, Call(command, args), avail)

\* a lookup that gives None for a name that is not bound
Invoke_silent(w, i, container, name, args, avail) ==
    IF name \notin DOMAIN w.inst[i][container].attrs
    THEN Return(w, NoneV)
    ELSE wrapper(w, i, w.inst[i][container].attrs[name], args, avail)

\* getattr(instrument.<container>, name)(*args)
Invoke(w, i, container, name, args, avail) ==
    IF name \notin DOMAIN w.inst[i][container].attrs
    THEN Raise(w, "AttributeError")
    ELSE wrapper(w, i, w.inst[i][container].attrs[name], args, avail)

\* add_connection: after ident = self.query.ident()
add_connection_ident(w, i) ==
    IF Raised(w) THEN w
    ELSE IF ~IsNone(w.ret)
    THEN Return([w EXCEPT !.inst[i].name = w.ret], BoolV(TRUE))
    ELSE Return(w, BoolV(FALSE))

GPIBInstrument_add_connection(w, i, connection, avail) ==
    add_connection_ident(
        Invoke([w EXCEPT !.inst[i].connection = connection],
               i, "query", "ident", <<>>, avail),
        i)

---------------------------------------------------------------------------
(* pl_gpib/controller.py: GPIBController.add_instrument *)

\* if instrument.add_connection(self): self.instruments[address] = instrument
add_instrument_store(w, i, n) ==
    IF Raised(w) THEN w
    ELSE IF Truthy(w.ret)
    THEN Return([w EXCEPT !.ctl.instruments = Put(@, n, i)], NoneV)
    ELSE Return(w, NoneV)

add_instrument_connect(w, i, n, avail) ==
    IF Raised(w) THEN w
    ELSE add_instrument_store(
             GPIBInstrument_add_connection(w, i, CtlRef, avail), i, n)

\* address = int(address), the check of the map, the re-addressing
add_instrument_check(w, i, a, avail) ==
    IF ~a.ok THEN Raise(w, a.err)
    ELSE IF a.v \in DOMAIN w.ctl.instruments
    THEN Raise(w, "GPIBAddressInUseError")
    ELSE add_instrument_connect(
             IF IntV(a.v) # w.inst[i].address
             THEN GPIBInstrument_set_address(w, i, IntV(a.v))
             ELSE w,
             i, a.v, avail)

\* assert address is not None
add_instrument_assert(w, i, address, avail) ==
    IF IsNone(address) THEN Raise(w, "AssertionError")
    ELSE add_instrument_check(w, i, PyInt(address), avail)

\* address = address or instrument.address
GPIBController_add_instrument(w, i, addressArg, avail) ==
    add_instrument_assert(w, i, PyOr(addressArg, w.inst[i].address), avail)

---------------------------------------------------------------------------
(* Inputs: what callers pass and what the channel delivers *)

\* bus addresses callers use: 0 and the two-digit 10
Addresses == {0, 10}
AddressArgs == {IntV(a) : a \in Addresses}
Instruments == {"i1", "i2"}

\* the most arguments a call of a registered entry is given
MaxArgs == 2
ArgLists == {[k \in 1..n |-> IntV(7)] : n \in 0..MaxArgs}

\* text callers write to a device
WriteTexts == {RST}

\* what a device sends back for one read: nothing before the timeout, an
\* identification, the bridge's error string (bare, or ended by newline or
\* CR LF), padded text, two lines
IdentReply == <<"A", "C", "M", "E", "\n">>
Replies ==
    { <<>>, IdentReply, UnrecognizedCommand,
      UnrecognizedCommand \o <<"\n">>, UnrecognizedCommand \o CRLF,
      <<" ", "7", " ", "\r", "\n">>, <<"1", "\n", "2", "\n">> }
IdentReplies == { <<>>, IdentReply }

\* n of read(n) in direct calls
ReadSizes == {1, 10, 20, 100}

V30 == <<"3", ".", "0">>

\* The bridge answers `++addr` with the address it has selected, `++mode`
\* with its mode and `++ver` with its version, each ended by CR LF; or the
\* answer does not arrive before the read times out.  The `++read eoi` that
\* read() sends first may add bytes of the addressed device after it.
AddrAnswers(b) ==
    { <<>>, IntToStr(b.addr) \o CRLF, IntToStr(b.addr) \o CRLF \o IdentReply }
ModeAnswers(b) == { <<>>, IntToStr(b.mode) \o CRLF }
VerAnswers == { <<>>, V30 \o CRLF }

---------------------------------------------------------------------------
(* Steps: one call each *)

\* the world a call starts in: nothing written, read, returned or raised yet
World ==
    [ctl |-> ctl, inst |-> inst, bridge |-> bridge, tx |-> <<>>,
     rd |-> <<>>, ret |-> NoneV, exc |-> NoExc, accepts |-> NoneV]

\* the same, on a channel that accepts as many writes as `accepts` says
WorldOn(accepts) == [World EXCEPT !.accepts = accepts]

\* a thread that is in no call
Idle == [pc |-> "idle", command |-> <<>>, address |-> NoneV,
         wrapped |-> FALSE, entry |-> NoneV]
Threads == {"t1", "t2"}
NoCalls == [t \in Threads |-> Idle]

\* the call `o` ran, by itself from its first line to its last, and left
\* world w
Commit(w, o) ==
    /\ ctl' = w.ctl
    /\ inst' = w.inst
    /\ bridge' = w.bridge
    /\ tx' = w.tx
    /\ rd' = w.rd
    /\ ret' = w.ret
    /\ exc' = w.exc
    /\ op' = o
    /\ threads' = threads

Constructed == ctl.t = "GPIBController"

SetAddress(a, accepts) ==
    /\ Constructed
    /\ Commit(GPIBController_set_address(WorldOn(accepts), a),
              [name |-> "set_address", address |-> a, accepts |-> accepts])

QueryAddress(avail) ==
    /\ Constructed
    /\ Commit(GPIBController_query_address(World, avail),
              [name |-> "query_address", avail |-> avail])

AddInstrument(i, a, avail) ==
    /\ Constructed
    /\ Commit(GPIBController_add_instrument(World, i, a, avail),
              [name |-> "add_instrument", i |-> i, address |-> a,
               avail |-> avail])

AddConnection(i, avail) ==
    /\ Constructed
    /\ Commit(GPIBInstrument_add_connection(World, i, CtlRef, avail),
              [name |-> "add_connection", i |-> i, avail |-> avail])

InstrumentWrite(i, text) ==
    /\ Constructed
    /\ Commit(GPIBInstrument_write(World, i, text),
              [name |-> "Instrument.write", i |-> i, text |-> text])

InstrumentSetAddress(i, a) ==
    /\ Constructed
    /\ Commit(GPIBInstrument_set_address(World, i, a),
              [name |-> "Instrument.set_address", i |-> i, address |-> a])

InvokeEntry(i, container, name, args, avail) ==
    /\ Constructed
    /\ Commit(Invoke(World, i, container, name, args, avail),
              [name |-> "invoke", i |-> i, container |-> container,
               entry |-> name, args |-> args, avail |-> avail])

Read(n, avail) ==
    /\ Constructed
    /\ Commit(GPIBController_read(World, n, avail),
              [name |-> "read", n |-> n, avail |-> avail])

Readline(avail) ==
    /\ Constructed
    /\ Commit(GPIBController_readline(World, avail),
              [name |-> "readline", avail |-> avail])

\* Before the controller exists: the bridge keeps the address and mode of
\* its last session, the instruments are constructed and unattached.
Bridges == [addr : Addresses, mode : BridgeModes]
Construct(f) ==
    [i \in Instruments |-> GPIBInstrument_init(f[i].cls, f[i].address, NoneV, NoneV)]
World0(b, f) ==
    [ctl |-> NoneV, inst |-> Construct(f), bridge |-> b, tx |-> <<>>,
     rd |-> <<>>, ret |-> NoneV, exc |-> NoExc, accepts |-> NoneV]

\* the state GPIBController(port, connection=channel) leaves on a bridge b
\* that answers both of its queries, with instruments constructed as f says
Holds(w, o) ==
    /\ ctl = w.ctl /\ inst = w.inst /\ bridge = w.bridge
    /\ tx = w.tx /\ rd = w.rd /\ ret = w.ret /\ exc = w.exc
    /\ op = o
    /\ threads = NoCalls
AfterInit(b, f) ==
    Holds(GPIBController_init(World0(b, f), NoneV, V30 \o CRLF,
                              IntToStr(b.addr) \o CRLF),
          [name |-> "__init__", mode |-> NoneV, verAvail |-> V30 \o CRLF,
           addrAvail |-> IntToStr(b.addr) \o CRLF])

---------------------------------------------------------------------------
(* Spec: one controller and two instruments of the subclass Meter; the     *)
(* calls that select addresses, attach instruments and write to them       *)

Init ==
    \E b \in Bridges,
       f \in [Instruments -> [cls : {"Meter"}, address : AddressArgs \cup {NoneV}]] :
        AfterInit(b, f)

Next ==
    \/ \E a \in AddressArgs : SetAddress(a, NoneV)
    \/ \E avail \in AddrAnswers(bridge) : QueryAddress(avail)
    \/ \E i \in Instruments, a \in AddressArgs \cup {NoneV},
          avail \in IdentReplies : AddInstrument(i, a, avail)
    \/ \E i \in Instruments, avail \in IdentReplies : AddConnection(i, avail)
    \/ \E i \in Instruments, text \in WriteTexts : InstrumentWrite(i, text)
    \/ \E i \in Instruments, a \in AddressArgs : InstrumentSetAddress(i, a)
    \/ \E i \in Instruments :
          InvokeEntry(i, "query", "ident", <<>>, IdentReply)
    \/ \E i \in Instruments : InvokeEntry(i, "command", "reset", <<>>, <<>>)

Spec == Init /\ [][Next]_vars

---------------------------------------------------------------------------
(* CtlSpec: the controller alone, from before its construction; the calls  *)
(* of its own interface                                                    *)

\* the address a bridge may hold from its last session
BridgeAddresses == Addresses \cup {6}
ModeArgs == {NoneV, IntV(0), IntV(1), IntV(2)}

\* GPIBController(port, mode, connection=channel); an exception in __init__
\* leaves the caller without a controller object
Bound(w) == IF Raised(w) THEN [w EXCEPT !.ctl = NoneV] ELSE w
NewController(mode, verAvail, addrAvail) ==
    /\ ~Constructed
    /\ Commit(Bound(GPIBController_init(World, mode, verAvail, addrAvail)),
              [name |-> "__init__", mode |-> mode, verAvail |-> verAvail,
               addrAvail |-> addrAvail])

SetMode(m, accepts) ==
    /\ Constructed
    /\ Commit(GPIBController_set_mode(WorldOn(accepts), m),
              [name |-> "set_mode", mode |-> m, accepts |-> accepts])

QueryMode(avail) ==
    /\ Constructed
    /\ Commit(GPIBController_query_mode(World, avail),
              [name |-> "query_mode", avail |-> avail])

QueryVersion(avail) ==
    /\ Constructed
    /\ Commit(GPIBController_query_version(World, avail),
              [name |-> "query_version", avail |-> avail])

Unattached == [i \in Instruments |-> [cls |-> "Meter", address |-> NoneV]]

\* what callers pass to set_address and set_mode: integers, text that int()
\* reads as an integer, text that it does not, None
CtlAddressArgs ==
    AddressArgs \cup {StrV(<<" ", "1", "0">>), StrV(<<"x">>), NoneV}
CtlModeArgs ==
    {IntV(0), IntV(1), IntV(2), StrV(<<"1">>), StrV(<<"x">>), NoneV}
\* the channel accepts every write, or fails at the first
Acceptances == {NoneV, IntV(0)}

CtlInit ==
    /\ ctl = NoneV
    /\ inst = Construct(Unattached)
    /\ bridge \in [addr : BridgeAddresses, mode : BridgeModes]
    /\ op = [name |-> "start"]
    /\ tx = <<>> /\ rd = <<>> /\ ret = NoneV /\ exc = NoExc
    /\ threads = NoCalls

CtlNext ==
    \/ \E mode \in ModeArgs, verAvail \in VerAnswers,
          addrAvail \in AddrAnswers(bridge) :
          NewController(mode, verAvail, addrAvail)
    \/ \E a \in CtlAddressArgs, accepts \in Acceptances : SetAddress(a, accepts)
    \/ \E avail \in AddrAnswers(bridge) : QueryAddress(avail)
    \/ \E m \in CtlModeArgs, accepts \in Acceptances : SetMode(m, accepts)
    \/ \E avail \in ModeAnswers(bridge) : QueryMode(avail)
    \/ \E avail \in VerAnswers : QueryVersion(avail)
    \/ \E n \in ReadSizes, avail \in Replies : Read(n, avail)
    \/ \E avail \in Replies : Readline(avail)

CtlSpec == CtlInit /\ [][CtlNext]_vars

---------------------------------------------------------------------------
(* RegSpec: one instrument, of the class GPIBInstrument or of the subclass *)
(* Meter; attaching it and calling the entries of its registries           *)

\* names callers invoke: registered ones and one that is not
QueryNames == {"ident", "identification", "measure", "nope"}
CommandNames == {"reset", "configure", "nope"}

RegInit ==
    \E b \in Bridges, cls \in Classes, a \in AddressArgs \cup {NoneV} :
        AfterInit(b, [i \in Instruments |->
                        IF i = "i1" THEN [cls |-> cls, address |-> a]
                        ELSE Unattached[i]])

RegNext ==
    \/ \E a \in AddressArgs \cup {NoneV}, avail \in Replies :
          AddInstrument("i1", a, avail)
    \/ \E avail \in Replies : AddConnection("i1", avail)
    \/ \E a \in AddressArgs : SetAddress(a, NoneV)
    \/ \E name \in QueryNames, args \in ArgLists, avail \in Replies :
          InvokeEntry("i1", "query", name, args, avail)
    \/ \E name \in CommandNames, args \in ArgLists :
          InvokeEntry("i1", "command", name, args, <<>>)

RegSpec == RegInit /\ [][RegNext]_vars

---------------------------------------------------------------------------
(* ThreadSpec: two threads, each calling Instrument.write on an instrument *)
(* of its own; both instruments are attached to the one controller, at     *)
(* different addresses.  A thread's step is one line of the call, and the  *)
(* lines of the two threads interleave, as nothing in the source excludes  *)
(* it: no lock is taken anywhere.                                          *)

\* the instrument each thread writes to, and the instruments' addresses
Caller == [t1 |-> "i1", t2 |-> "i2"]
ThreadAddresses ==
    [i \in Instruments |->
        [cls |-> "Meter", address |-> IF i = "i1" THEN IntV(0) ELSE IntV(10)]]

\* the world a finished call leaves to the next one
Fresh(w) ==
    [w EXCEPT !.tx = <<>>, !.rd = <<>>, !.ret = NoneV, !.exc = NoExc]

\* controller = GPIBController(...); controller.add_instrument(i1);
\* controller.add_instrument(i2)
Attached(b) ==
    GPIBController_add_instrument(
        Fresh(GPIBController_add_instrument(
                  Fresh(GPIBController_init(World0(b, ThreadAddresses), NoneV,
                                            V30 \o CRLF,
                                            IntToStr(b.addr) \o CRLF)),
                  "i1", NoneV, IdentReply)),
        "i2", NoneV, IdentReply)

\* thread t ran the line `step` of its call, which left world w and the
\* thread at `frame`
ThreadStep(w, t, step, frame) ==
    /\ ctl' = w.ctl
    /\ inst' = w.inst
    /\ bridge' = w.bridge
    /\ tx' = w.tx
    /\ rd' = w.rd
    /\ ret' = w.ret
    /\ exc' = w.exc
    /\ op' = [name |-> step, t |-> t, i |-> Caller[t]]
    /\ threads' = [threads EXCEPT ![t] = frame]

\* what the threads call: instrument.write(text) with these texts, and
\* these entries of the registries
ThreadTexts == {RST, CLS}
ThreadEntries == {[container |-> "query", name |-> "ident"],
                  [container |-> "command", name |-> "reset"]}

\* instrument.write(command) is called, by the thread itself or by the
\* wrapper of a registry entry:
\*   if self.connection is not None:
\*       if self.address != self.connection.address:
ThreadEnter(t, command, wrapped, entry) ==
    /\ threads[t].pc = "idle"
    /\ ThreadStep(World, t, "write: compare",
                  IF IsNone(inst[Caller[t]].connection) THEN Idle
                  ELSE [pc |-> IF inst[Caller[t]].address # ctl.address
                               THEN "set_address" ELSE "write",
                        command |-> command,
                        address |-> inst[Caller[t]].address,
                        wrapped |-> wrapped,
                        entry |-> entry])

\* getattr(instrument.<container>, name)(): the wrapper renders the entry
\* and calls self.instrument.write
ThreadInvoke(t, e) ==
    ThreadEnter(t, Call(inst[Caller[t]][e.container].attrs[e.name], <<>>).v,
                TRUE,
                inst[Caller[t]][e.container].attrs[e.name])

\* self.connection.set_address(self.address), up to its write:
\*   address = int(address); self.write("++addr {}".format(address))
ThreadSelect(t) ==
    /\ threads[t].pc = "set_address"
    /\ ThreadStep(GPIBController_write(
                      World, AddrFormat(PyInt(threads[t].address).v)),
                  t, "write: ++addr",
                  [threads[t] EXCEPT !.pc = "store"])

\* the last line of set_address: self.address = address
ThreadStore(t) ==
    /\ threads[t].pc = "store"
    /\ ThreadStep(set_address_store(World, PyInt(threads[t].address).v),
                  t, "write: store",
                  [threads[t] EXCEPT !.pc = "write"])

\* self.connection.write(command), and the return: to the caller, or to
\* the wrapper, which goes on to read if the entry is a query
ThreadWrite(t) ==
    /\ threads[t].pc = "write"
    /\ ThreadStep(GPIBController_write(World, threads[t].command),
                  t, "write: payload",
                  IF threads[t].wrapped /\ IsQueryString(threads[t].entry)
                  THEN [threads[t] EXCEPT !.pc = "read"]
                  ELSE Idle)

\* instrument.read(n) -> connection.read(n), its first line:
\*   self.write('++read eoi')
ThreadReadEoi(t) ==
    /\ threads[t].pc = "read"
    /\ ThreadStep(GPIBController_write(World, ReadEoiText),
                  t, "read: ++read eoi",
                  [threads[t] EXCEPT !.pc = "receive"])

\* the rest of read(n): self.serial.read(n).strip(), the check, the return
ThreadReceive(t, avail) ==
    /\ threads[t].pc = "receive"
    /\ ThreadStep(read_strip(World, threads[t].entry.read_bytes,
                             SerialRead(avail, threads[t].entry.read_bytes)),
                  t, "read: receive", Idle)

ThreadInit ==
    \E b \in Bridges :
        /\ Holds(Fresh(Attached(b)), [name |-> "start"])

ThreadNext ==
    \/ \E t \in Threads, command \in ThreadTexts : 
          ThreadEnter(t, command, FALSE, NoneV)
    \/ \E t \in Threads, e \in ThreadEntries : ThreadInvoke(t, e)
    \/ \E t \in Threads : ThreadSelect(t)
    \/ \E t \in Threads : ThreadStore(t)
    \/ \E t \in Threads : ThreadWrite(t)
    \/ \E t \in Threads : ThreadReadEoi(t)
    \/ \E t \in Threads : ThreadReceive(t, IdentReply)

ThreadSpec == ThreadInit /\ [][ThreadNext]_vars

---------------------------------------------------------------------------
(* CmdSpec: the entries and the registries by themselves, without a        *)
(* controller: rendering an entry, registering entries at run time,        *)
(* listing a registry, constructing an instrument                          *)

\* the values of a class-level table
Range(items) == {items[k].value : k \in 1..Len(items)}

\* the entries the class-level tables hold
TableEntries ==
    Range(base_queries) \cup Range(base_commands)
        \cup Range(queries("Meter")) \cup Range(commands("Meter"))

\* the entries that are rendered: commands and queries, of the base tables
\* and of the subclass
RenderEntries ==
    {e \in TableEntries :
       e.name \in {"reset", "recall_instrument_setting", "configure",
                   "identification", "self_test", "measure"}}

\* the most arguments an entry is rendered with
MaxRender == 3
ON == <<"O", "N">>
RenderArgs ==
    UNION {[1..n -> {IntV(-1), StrV(ON)}] : n \in 0..MaxRender}

\* what command(*args) leaves: the text, or the exception of the call
Rendered(w, text) ==
    IF text.ok THEN Return(w, StrV(text.v)) ELSE Raise(w, text.err)

\* command(*args)
Render(command, args) ==
    Commit(Rendered(World, Call(command, args)),
           [name |-> "render", command |-> command, args |-> args])


\* a registry that every instrument shares: an entry added through one
\* instrument is in the registry of each
Registered_shared(w, i, container, command) ==
    [w EXCEPT !.inst =
        [j \in DOMAIN @ |->
            [@[j] EXCEPT ![container] = CommandContainer_add_command(@, command)]]]

\* instrument.<container>.add_command(command)
Registered(w, i, container, command) ==
    [w EXCEPT !.inst[i][container] = CommandContainer_add_command(@, command)]

RECURSIVE CommandContainer_add_commands(_, _, _, _, _)
\* add_commands: one item built, then self.add_command(qry) and the rest
add_commands_item(w, i, container, items, query, qry) ==
    IF ~qry.ok THEN Raise(w, qry.err)
    ELSE CommandContainer_add_commands(
             Registered(w, i, container, qry.v), i, container, Tail(items), query)

\* instrument.<container>.add_commands(commands_dict, query), the dict as
\* its items in order
CommandContainer_add_commands(w, i, container, items, query) ==
    IF items = <<>> THEN Return(w, NoneV)
    ELSE add_commands_item(w, i, container, items, query,
                           Build(query, Head(items).key, Head(items).value))

\* entries and tables registered at run time: a name of the base tables, a
\* new name with two command texts, a table with plain text and one with a
\* tuple
ABOR == <<":", "A", "B", "O", "R">>
ZERO == <<":", "Z", "E", "R", "O">>
RuntimeCommands ==
    {CommandString("reset", CONF), CommandString("abort", ABOR),
     CommandString("abort", CONF)}
RuntimeTables ==
    { << [key |-> "zero", value |-> StrV(ZERO)],
         [key |-> "reset", value |-> StrV(CONF)] >>,
      << [key |-> "zero", value |-> TupleV(<<MEAS, -1>>)] >> }

AddCommand(i, container, command) ==
    Commit(Return(Registered(World, i, container, command), NoneV),
           [name |-> "add_command", i |-> i, container |-> container,
            command |-> command])

AddCommands(i, container, items, query) ==
    Commit(CommandContainer_add_commands(World, i, container, items, query),
           [name |-> "add_commands", i |-> i, container |-> container,
            items |-> items, query |-> query])

ListAll(i, container) ==
    Commit(Return(World, CommandContainer_list_all(inst[i][container])),
           [name |-> "list_all", i |-> i, container |-> container])

\* i = cls(): the name i is bound to a new instrument
NewInstrument(i, cls) ==
    Commit(Return([World EXCEPT
                     !.inst[i] = GPIBInstrument_init(cls, NoneV, NoneV, NoneV)],
                  NoneV),
           [name |-> "GPIBInstrument", i |-> i, cls |-> cls])

\* the classes instruments are constructed of
CmdClasses == Classes \cup {"Scope"}

CmdInit ==
    /\ ctl = NoneV
    /\ inst \in {Construct(f) :
                   f \in [Instruments -> [cls : Classes, address : {NoneV}]]}
    /\ bridge = [addr |-> 0, mode |-> 1]
    /\ op = [name |-> "start"]
    /\ tx = <<>> /\ rd = <<>> /\ ret = NoneV /\ exc = NoExc
    /\ threads = NoCalls

CmdNext ==
    \/ \E command \in RuntimeCommands : AddCommand("i1", "command", command)
    \/ \E items \in RuntimeTables : AddCommands("i1", "query", items, TRUE)
    \/ \E items \in RuntimeTables : AddCommands("i1", "command", items, FALSE)
    \/ \E container \in {"query", "command"} : ListAll("i1", container)
    \/ \E cls \in CmdClasses : NewInstrument("i2", cls)

CmdSpec == CmdInit /\ [][CmdNext]_vars

\* entries called with arguments
RenderNext ==
    \E command \in RenderEntries, args \in RenderArgs : Render(command, args)

RenderSpec == CmdInit /\ [][RenderNext]_vars

---------------------------------------------------------------------------
(* Properties *)

Line(text) == text \o DEFAULT_EOI

\* r is raw without its leading and trailing whitespace
IsTrimOf(r, raw) ==
    \E a \in 0..Len(raw) :
        /\ a + Len(r) <= Len(raw)
        /\ \A k \in 1..a : raw[k] \in Whitespace
        /\ \A k \in (a + Len(r) + 1)..Len(raw) : raw[k] \in Whitespace
        /\ \A k \in 1..Len(r) : raw[a + k] = r[k]
        /\ r # <<>> => (r[1] \notin Whitespace /\ r[Len(r)] \notin Whitespace)

\* instrument i is attached and has an integer bus address
Addressed(i) == inst[i].connection = CtlRef /\ inst[i].address.t = "int"

\* tx without a leading `++addr n` line
Payload(lines) ==
    IF lines # <<>> /\ StartsWith(lines[1], AddrText \o <<" ">>)
    THEN Tail(lines) ELSE lines

\* C1 (under Spec): Instrument.write(text) on an attached instrument with an
\* integer address writes `++addr <instrument.address>` and then the payload
\* line when the instrument's address differs from the controller's cached
\* address, and the payload line alone when the two are equal.
C1_WriteReaddressesOnlyOnMismatch ==
    [][\A i \in Instruments :
         (op'.name = "Instrument.write" /\ op'.i = i /\ Addressed(i))
         => /\ exc' = NoExc
            /\ tx' = IF inst[i].address # ctl.address
                     THEN << Line(AddrFormat(inst[i].address.v)),
                             Line(op'.text) >>
                     ELSE << Line(op'.text) >>]_vars

\* a write that had to re-address the bridge
C1_Witness ==
    /\ op.name = "Instrument.write"
    /\ Addressed(op.i)
    /\ tx = << Line(AddrFormat(inst[op.i].address.v)), Line(op.text) >>

\* C2 (under Spec): after construction and after every call of set_address,
\* query_address, add_instrument, Instrument.write and of a registered
\* entry, the cached address is the address selected on the bridge.
C2_CachedAddressIsSelected == ctl.address = IntV(bridge.addr)

\* a registered query re-addressed the bridge, and the cache followed
C2_Witness ==
    /\ op.name = "invoke"
    /\ Len(tx) = 3
    /\ tx[1] = Line(AddrFormat(bridge.addr))
    /\ bridge.addr = 10
    /\ ctl.address = IntV(10)

\* C3 (under Spec): add_instrument with an address argument that is a key
\* of the instrument map raises GPIBAddressInUseError and changes nothing:
\* not the map, the cached address, the channel or the instrument.
C3_OccupiedAddressRejected ==
    [][(/\ op'.name = "add_instrument"
        /\ op'.address.t = "int"
        /\ op'.address.v \in DOMAIN ctl.instruments)
       => /\ exc' = "GPIBAddressInUseError"
          /\ tx' = <<>>
          /\ ctl' = ctl
          /\ inst' = inst
          /\ bridge' = bridge]_vars

\* address 0 holds an instrument, and add_instrument(other, 0) stored the
\* other instrument at its own address
C3_Witness ==
    /\ op.name = "add_instrument"
    /\ op.address = IntV(0)
    /\ exc = NoExc
    /\ 0 \in DOMAIN ctl.instruments
    /\ ctl.instruments[0] # op.i
    /\ 10 \in DOMAIN ctl.instruments
    /\ ctl.instruments[10] = op.i

\* C4 (under CtlSpec): read(n) writes `++read eoi` and takes at most n bytes;
\* when these, without surrounding whitespace, are `Unrecognized Command`
\* it raises UnrecognizedCommandError and returns nothing, and otherwise it
\* returns them without their surrounding whitespace.
C4_ReadTrimsAndChecks ==
    op.name = "read"
    => /\ tx = << Line(ReadEoiText) >>
       /\ Len(rd) = 1
       /\ rd[1].n = op.n
       /\ Len(rd[1].got) = IF Len(op.avail) < op.n THEN Len(op.avail) ELSE op.n
       /\ rd[1].got = SubSeq(op.avail, 1, Len(rd[1].got))
       /\ IF IsTrimOf(UnrecognizedCommand, rd[1].got)
          THEN exc = "UnrecognizedCommandError" /\ ret = NoneV
          ELSE exc = NoExc /\ ret.t = "bytes" /\ IsTrimOf(ret.v, rd[1].got)

\* read raised on the error string that arrived with its CR LF
C4_Witness ==
    /\ op.name = "read"
    /\ op.avail = UnrecognizedCommand \o CRLF
    /\ exc = "UnrecognizedCommandError"

\* C5 (under CtlSpec): when the channel delivers the line `Unrecognized
\* Command` with its terminator, readline raises UnrecognizedCommandError.
C5_ReadlineRaisesOnErrorLine ==
    (/\ op.name = "readline"
     /\ op.avail \in {UnrecognizedCommand \o <<"\n">>, UnrecognizedCommand \o CRLF})
    => exc = "UnrecognizedCommandError"

\* readline returned the error string as data
C5_Witness ==
    /\ op.name = "readline"
    /\ op.avail = UnrecognizedCommand \o <<"\n">>
    /\ exc = NoExc
    /\ ret = BytesV(UnrecognizedCommand)

\* the answer to an identification query: not empty, not the error string
Identifies(avail) ==
    /\ ~IsTrimOf(<<>>, avail)
    /\ ~IsTrimOf(UnrecognizedCommand, avail)

\* C6 (under RegSpec): add_connection(controller) on a fresh instrument
\* whose identification query is answered with R stores the controller as
\* connection, writes `*IDN?` and reads, sets name to R and returns True.
C6_AddConnectionIdentifies ==
    [][\A i \in Instruments :
         (/\ op'.name = "add_connection" /\ op'.i = i
          /\ IsNone(inst[i].connection) /\ IsNone(inst[i].name)
          /\ inst[i].address.t = "int"
          /\ Identifies(op'.avail))
         => /\ exc' = NoExc
            /\ ret' = BoolV(TRUE)
            /\ inst'[i].connection = CtlRef
            /\ Payload(tx') = << Line(IDN \o <<"?">>), Line(ReadEoiText) >>
            /\ inst'[i].name.t = "bytes"
            /\ IsTrimOf(inst'[i].name.v, op'.avail)]_vars

\* add_connection on an instrument of the base class ended in AttributeError
\* with the connection stored and nothing written
C6_Witness ==
    /\ op.name = "add_connection"
    /\ inst[op.i].cls = "GPIBInstrument"
    /\ Identifies(op.avail)
    /\ exc = "AttributeError"
    /\ inst[op.i].connection = CtlRef
    /\ IsNone(inst[op.i].name)
    /\ tx = <<>>

\* the instrument's query registry has an entry bound as `ident`
HasIdent(i) == "ident" \in DOMAIN inst[i].query.attrs

\* C7 (under RegSpec): when the identification query is answered with empty
\* bytes, add_connection returns False and leaves name as it was.
C7_EmptyAnswerIsFailure ==
    [][\A i \in Instruments :
         (/\ op'.name = "add_connection" /\ op'.i = i
          /\ HasIdent(i)
          /\ inst[i].address.t = "int"
          /\ op'.avail = <<>>)
         => /\ exc' = NoExc
            /\ ret' = BoolV(FALSE)
            /\ inst'[i].name = inst[i].name]_vars

\* add_connection returned True on an empty answer and named the
\* instrument with the empty bytes
C7_Witness ==
    /\ op.name = "add_connection"
    /\ op.avail = <<>>
    /\ exc = NoExc
    /\ ret = BoolV(TRUE)
    /\ inst[op.i].name = BytesV(<<>>)

\* C8 (under Spec): when the device returns no identification, add_instrument
\* raises nothing and leaves the instrument map as it was.
C8_FailedHandshakeNotStored ==
    [][\A i \in Instruments :
         (/\ op'.name = "add_instrument" /\ op'.i = i
          /\ HasIdent(i)
          /\ op'.address.t = "int" /\ op'.address.v # 0
          /\ op'.address.v \notin DOMAIN ctl.instruments
          /\ op'.avail = <<>>)
         => /\ exc' = NoExc
            /\ ctl'.instruments = ctl.instruments]_vars

\* add_instrument stored an instrument whose identification query was not
\* answered
C8_Witness ==
    /\ op.name = "add_instrument"
    /\ op.avail = <<>>
    /\ op.address = IntV(10)
    /\ exc = NoExc
    /\ 10 \in DOMAIN ctl.instruments
    /\ ctl.instruments[10] = op.i
    /\ inst[op.i].name = BytesV(<<>>)

\* the mode __init__ sets: the argument, 1 when it is None
ModeOf(mode) == IF IsNone(mode) THEN 1 ELSE mode.v

\* C9 (under CtlSpec): construction writes `++ver` and reads 100 bytes, writes
\* `++mode m`, writes `++addr` and reads 10 bytes, in this order; answered
\* with the version 3.0 and the address a, it leaves version "3.0", mode m,
\* address a and an empty instrument map.
C9_ConstructionSequence ==
    op.name = "__init__"
    => /\ tx = << Line(VerText), Line(ReadEoiText),
                  Line(ModeText \o <<" ">> \o IntToStr(ModeOf(op.mode))),
                  Line(AddrText), Line(ReadEoiText) >>
       /\ Len(rd) = 2
       /\ rd[1].kind = "read" /\ rd[1].n = 100 /\ rd[1].after = 2
       /\ rd[2].kind = "read" /\ rd[2].n = 10 /\ rd[2].after = 5
       /\ \A a \in BridgeAddresses :
            (op.verAvail = V30 \o CRLF /\ op.addrAvail = IntToStr(a) \o CRLF)
            => /\ exc = NoExc
               /\ ctl = [t |-> "GPIBController", address |-> IntV(a),
                         mode |-> IntV(ModeOf(op.mode)), version |-> StrV(V30),
                         instruments |-> <<>>]

\* constructed in mode 0 on a bridge that answers 3.0 and 6
C9_Witness ==
    /\ op.name = "__init__"
    /\ op.mode = IntV(0)
    /\ op.verAvail = V30 \o CRLF
    /\ op.addrAvail = <<"6">> \o CRLF
    /\ ctl.t = "GPIBController"
    /\ ctl.address = IntV(6)
    /\ ctl.mode = IntV(0)

\* the entry a call invoked
Entry == inst[op.i][op.container].attrs[op.entry]

\* a call of a registered entry of an attached, addressed instrument with
\* arguments the entry accepts
Invoked ==
    /\ op.name = "invoke"
    /\ Addressed(op.i)
    /\ op.entry \in DOMAIN inst[op.i][op.container].attrs
    /\ Call(Entry, op.args).ok

\* C10 (under RegSpec): invoking a registered entry writes its rendered text
\* through the instrument; a command is followed by no read and returns
\* None; a query is followed by exactly one read, read(read_bytes) when
\* read_bytes >= 0 and readline() otherwise, whose result it returns.
C10_InvokeWritesThenReadsQueries ==
    Invoked
    => IF IsQueryString(Entry)
       THEN /\ Payload(tx) = << Line(Call(Entry, op.args).v), Line(ReadEoiText) >>
            /\ Len(rd) = 1
            /\ rd[1].after = Len(tx)
            /\ IF Entry.read_bytes >= 0
               THEN rd[1].kind = "read" /\ rd[1].n = Entry.read_bytes
               ELSE rd[1].kind = "readline"
            /\ \/ exc = NoExc /\ ret.t = "bytes" /\ IsTrimOf(ret.v, rd[1].got)
               \/ exc = "UnrecognizedCommandError" /\ ret = NoneV
       ELSE /\ Payload(tx) = << Line(Call(Entry, op.args).v) >>
            /\ rd = <<>>
            /\ ret = NoneV
            /\ exc = NoExc

\* a query registered with a negative read_bytes was read with readline
C10_Witness ==
    /\ Invoked
    /\ op.entry = "measure"
    /\ Len(rd) = 1
    /\ rd[1].kind = "readline"
    /\ ret = BytesV(<<"1">>)

\* C11 (under RenderSpec): calling a query with any arguments, none or some,
\* raises nothing and gives its command text followed by "?".
C11_QueryIgnoresArguments ==
    (op.name = "render" /\ IsQueryString(op.command))
    => /\ exc = NoExc
       /\ ret = StrV(op.command.command_text \o <<"?">>)

\* a query called with an argument raised TypeError
C11_Witness ==
    /\ op.name = "render"
    /\ IsQueryString(op.command)
    /\ op.args = <<IntV(-1)>>
    /\ exc = "TypeError"
    /\ ret = NoneV

RECURSIVE Spaced(_, _)
\* text, then each argument in turn after one space
Spaced(text, args) ==
    IF args = <<>> THEN text
    ELSE Spaced(text \o <<" ">> \o PyStr(Head(args)), Tail(args))

\* C12 (under RenderSpec): calling a command with k >= 0 arguments gives its
\* command text followed by the k arguments as str() gives them, in call
\* order, each after one space; with no argument it is the command text.
C12_CommandRendersArguments ==
    (op.name = "render" /\ ~IsQueryString(op.command))
    => /\ exc = NoExc
       /\ ret = StrV(Spaced(op.command.command_text, op.args))
       /\ op.args = <<>> => ret = StrV(op.command.command_text)

\* a command rendered with two different arguments
C12_Witness ==
    /\ op.name = "render"
    /\ op.command = CommandString("configure", CONF)
    /\ op.args = <<IntV(-1), StrV(ON)>>
    /\ ret = StrV(CONF \o <<" ", "-", "1", " ", "O", "N">>)

\* names in lexicographic order, none twice
Ascending(names) ==
    \A k \in 1..(Len(names) - 1) :
        LexLess(Spell[names[k]], Spell[names[k + 1]])

\* a call that registers on a registry
Registers(o) == o.name \in {"add_command", "add_commands"}

\* C13 (under CmdSpec): a registration leaves every name that is already in
\* the registry with the entry and the binding it has, so registering a
\* present name changes nothing; list_all returns the names of the registry
\* in lexicographic order, each once.
C13_FirstRegistrationWins ==
    [][/\ Registers(op')
          => \A n \in DOMAIN inst[op'.i][op'.container].commands :
               /\ n \in DOMAIN inst'[op'.i][op'.container].commands
               /\ inst'[op'.i][op'.container].commands[n]
                    = inst[op'.i][op'.container].commands[n]
               /\ inst'[op'.i][op'.container].attrs[n]
                    = inst[op'.i][op'.container].attrs[n]
       /\ (/\ op'.name = "add_command"
           /\ op'.command.name \in DOMAIN inst[op'.i][op'.container].commands)
          => inst' = inst /\ exc' = NoExc
       /\ op'.name = "list_all"
          => /\ ret'.t = "list"
             /\ Ascending(ret'.v)
             /\ {ret'.v[k] : k \in 1..Len(ret'.v)}
                  = DOMAIN inst[op'.i][op'.container].commands]_vars

\* `abort` was registered a second time, with another text, and kept the
\* first
C13_Witness ==
    /\ op.name = "add_command"
    /\ op.command = CommandString("abort", CONF)
    /\ inst[op.i][op.container].commands["abort"] = CommandString("abort", ABOR)
    /\ inst[op.i][op.container].attrs["abort"] = CommandString("abort", ABOR)

\* the names and texts of the IEEE-488 common queries and commands
CommonQueries ==
    [ ident |-> IDN, event_status_enable |-> ESE,
      event_status_register |-> ESR, operation_complete |-> OPC,
      options |-> OPT, service_request_enable |-> SRE,
      read_status_byte |-> STB, self_test |-> TST ]
CommonCommands ==
    [ clear |-> CLS, event_status_enable |-> ESE, operation_complete |-> OPC,
      recall_instrument_setting |-> RCL, reset |-> RST, save |-> SAV,
      service_request_enable |-> SRE, wait |-> WAI ]

\* registry reg has exactly the names of table, each bound under its name
\* to an entry of the table's text
Holding(reg, table, mark) ==
    /\ DOMAIN reg.commands = DOMAIN table
    /\ DOMAIN reg.attrs = DOMAIN table
    /\ \A n \in DOMAIN table :
         /\ Call(reg.attrs[n], <<>>).ok
         /\ Call(reg.attrs[n], <<>>).v = table[n] \o mark

\* C14 (under CmdSpec): an instrument of the base class, as constructed,
\* has in its query registry exactly the eight common queries, ident among
\* them, and in its command registry exactly the eight common commands,
\* each callable under its name and rendering its IEEE-488 text.
C14_CommonTablesRegistered ==
    inst["i2"].cls = "GPIBInstrument"
    => /\ Holding(inst["i2"].query, CommonQueries, <<"?">>)
       /\ Holding(inst["i2"].command, CommonCommands, <<>>)

\* a constructed instrument of the base class whose identification query is
\* callable as `identification` and not as `ident`
C14_Witness ==
    /\ op.name = "GPIBInstrument"
    /\ op.cls = "GPIBInstrument"
    /\ "ident" \notin DOMAIN inst[op.i].query.attrs
    /\ "identification" \in DOMAIN inst[op.i].query.attrs
    /\ Call(inst[op.i].query.attrs["identification"], <<>>).v = IDN \o <<"?">>
    /\ Holding(inst[op.i].command, CommonCommands, <<>>)

\* C15 (under Spec): Instrument.write on an instrument without a connection
\* raises UnconnectedInstrumentError and writes nothing.
C15_UnattachedWriteFails ==
    (op.name = "Instrument.write" /\ IsNone(inst[op.i].connection))
    => exc = "UnconnectedInstrumentError" /\ tx = <<>>

\* a write on an instrument without a connection returned None
C15_Witness ==
    /\ op.name = "Instrument.write"
    /\ IsNone(inst[op.i].connection)
    /\ exc = NoExc
    /\ ret = NoneV
    /\ tx = <<>>

\* what set_address(x) / set_mode(x) did with its argument, to the channel
\* and to the cached value: before is the cache before the call, after the
\* cache after it, format the line to write
Disciplined(x, before, after, format(_)) ==
    IF ~PyInt(x).ok
    THEN /\ exc' \in {"ValueError", "TypeError"}
         /\ tx' = <<>>
         /\ after = before
    ELSE IF op'.accepts = IntV(0)
    THEN /\ exc' = "SerialException"
         /\ tx' = <<>>
         /\ after = before
    ELSE /\ exc' = NoExc
         /\ tx' = << Line(format(PyInt(x).v)) >>
         /\ after = IntV(PyInt(x).v)

\* C16 (under CtlSpec): set_address(a) and set_mode(m) raise, write nothing
\* and keep the cached value when the argument is no integer; keep the
\* cached value when the channel refuses the write; and otherwise write
\* `++addr a` / `++mode m` and cache the integer.
C16_CacheFollowsWrite ==
    [][/\ op'.name = "set_address"
          => /\ Disciplined(op'.address, ctl.address, ctl'.address, AddrFormat)
             /\ ctl'.mode = ctl.mode
       /\ op'.name = "set_mode"
          => /\ Disciplined(op'.mode, ctl.mode, ctl'.mode, ModeFormat)
             /\ ctl'.address = ctl.address]_vars

\* the channel refused the line of set_address(10) and the cache kept 0
C16_Witness ==
    /\ op.name = "set_address"
    /\ op.address = IntV(10)
    /\ op.accepts = IntV(0)
    /\ exc = "SerialException"
    /\ tx = <<>>
    /\ ctl.address = IntV(0)
    /\ bridge.addr = 0

\* C17 (under CtlSpec): when the read of query_address, query_mode or
\* query_version times out with empty bytes, the call raises nothing and
\* the cached address, mode and version stay as they were.
C17_TimeoutIsNoData ==
    [][(/\ op'.name \in {"query_address", "query_mode", "query_version"}
        /\ op'.avail = <<>>)
       => exc' = NoExc /\ ctl' = ctl]_vars

\* query_address raised ValueError on the empty answer
C17_Witness ==
    /\ op.name = "query_address"
    /\ op.avail = <<>>
    /\ exc = "ValueError"
    /\ Len(rd) = 1
    /\ rd[1].got = <<>>

\* C18 (under RegSpec): invoking a name that the registry does not bind
\* raises AttributeError, the failure of the lookup; nothing is written or
\* read, and the registries, the instruments and the controller with its
\* cached address stay as they were.
C18_UnregisteredNameFails ==
    [][(/\ op'.name = "invoke"
        /\ op'.entry \notin DOMAIN inst[op'.i][op'.container].attrs)
       => /\ exc' = "AttributeError"
          /\ ret' = NoneV
          /\ tx' = <<>>
          /\ rd' = <<>>
          /\ inst' = inst
          /\ ctl' = ctl
          /\ bridge' = bridge]_vars

\* a name of no table was invoked on an attached instrument at another
\* address than the cached one
C18_Witness ==
    /\ op.name = "invoke"
    /\ op.entry = "nope"
    /\ Addressed(op.i)
    /\ inst[op.i].address # ctl.address
    /\ exc = "AttributeError"
    /\ tx = <<>>

\* registry reg after construction from a subclass table: an entry of the
\* table whose name is one of the common set is bound to the common entry
\* (text common[name]), and an entry with a new name is bound as it is
Merged(reg, table, common, mark) ==
    \A e \in Range(table) :
        /\ e.name \in DOMAIN reg.attrs
        /\ IF e.name \in DOMAIN common
           THEN Call(reg.attrs[e.name], <<>>).v = common[e.name] \o mark
           ELSE reg.attrs[e.name] = e

\* C19 (under CmdSpec): after construction, a name of the common set that
\* the subclass table also has is bound to the common entry, and the new
\* names of the subclass table are bound to the subclass entries.
C19_BaseEntriesWin ==
    /\ Merged(inst["i2"].query, queries(inst["i2"].cls), CommonQueries, <<"?">>)
    /\ Merged(inst["i2"].command, commands(inst["i2"].cls), CommonCommands, <<>>)

\* an instrument of the subclass whose tables reuse self_test, reset and
\* ident: the first two are bound to the common entries, ident to the
\* subclass entry
C19_Witness ==
    /\ op.name = "GPIBInstrument"
    /\ op.cls = "Scope"
    /\ inst[op.i].query.attrs["self_test"] = QueryString(<<"self_test", TST>>)
    /\ inst[op.i].command.attrs["reset"] = CommandString("reset", RST)
    /\ inst[op.i].query.attrs["measure"] = QueryString(<<"measure", MEAS, -1>>)
    /\ inst[op.i].query.attrs["ident"] = QueryString(<<"ident", ID, 50>>)
    /\ inst[op.i].query.attrs["identification"]
         = QueryString(<<"identification", IDN, 100>>)

\* the entries of the class-level tables a registry of class cls is built of
ClassEntries(cls, container) ==
    IF container = "query"
    THEN Range(base_queries) \cup Range(queries(cls))
    ELSE Range(base_commands) \cup Range(commands(cls))

\* registry reg holds entries of the class-level tables only
FromTables(reg, cls, container) ==
    /\ DOMAIN reg.attrs = DOMAIN reg.commands
    /\ \A n \in DOMAIN reg.commands :
        /\ reg.commands[n] \in ClassEntries(cls, container)
        /\ reg.attrs[n] = reg.commands[n]

\* C20 (under CmdSpec): a registration on one instrument's registry leaves
\* the entries, the list_all() result and the bindings of every other
\* instrument's registries as they were, and an instrument constructed
\* afterwards starts with the entries of the class-level tables only.
C20_RegistriesPerInstrument ==
    [][/\ op'.name \in {"add_command", "add_commands"} =>
            \A j \in Instruments \ {op'.i} :
                \A container \in {"query", "command"} :
                    /\ inst'[j][container].commands = inst[j][container].commands
                    /\ inst'[j][container].attrs = inst[j][container].attrs
                    /\ CommandContainer_list_all(inst'[j][container])
                         = CommandContainer_list_all(inst[j][container])
       /\ op'.name = "GPIBInstrument" =>
            \A container \in {"query", "command"} :
                FromTables(inst'[op'.i][container], op'.cls, container)]_vars

\* an instrument constructed after entries were registered on the other
\* one at run time: it has none of them
C20_Witness ==
    /\ op.name = "GPIBInstrument"
    /\ op.i = "i2"
    /\ "abort" \in DOMAIN inst["i1"].command.attrs
    /\ "zero" \in DOMAIN inst["i1"].query.attrs
    /\ "abort" \notin DOMAIN inst["i2"].command.attrs
    /\ "zero" \notin DOMAIN inst["i2"].query.attrs
    /\ inst["i2"].command.attrs["reset"] = CommandString("reset", RST)

\* C21 (under Spec): Instrument.set_address(a) stores int(a) as the
\* instrument's address and nothing else: no line is written, nothing is
\* read, and the controller (cached address, mode, instrument map), the
\* bridge and the other instrument are as before.
C21_SetAddressIsLocal ==
    [][op'.name = "Instrument.set_address" =>
          /\ tx' = <<>>
          /\ rd' = <<>>
          /\ ctl' = ctl
          /\ bridge' = bridge
          /\ IF PyInt(op'.address).ok
             THEN /\ exc' = NoExc
                  /\ inst' = [inst EXCEPT
                                ![op'.i].address = IntV(PyInt(op'.address).v)]
             ELSE /\ exc' = PyInt(op'.address).err
                  /\ inst' = inst]_vars

\* an attached instrument was given an address that the controller has not
\* selected
C21_Witness ==
    /\ op.name = "Instrument.set_address"
    /\ exc = NoExc
    /\ ~IsNone(inst[op.i].connection)
    /\ inst[op.i].address = op.address
    /\ ctl.address # op.address
    /\ bridge.addr # op.address.v
    /\ ctl.instruments # <<>>

\* add_instrument(instrument, a) treated a as the effective address: a is
\* what is looked up in the map, what the instrument is given and the key
\* it is stored under
Effective(a, i) ==
    IF a \in DOMAIN ctl.instruments
    THEN /\ exc' = "GPIBAddressInUseError"
         /\ ctl' = ctl
         /\ inst' = inst
    ELSE /\ exc' = NoExc
         /\ inst'[i].address = IntV(a)
         /\ DOMAIN ctl'.instruments \subseteq DOMAIN ctl.instruments \cup {a}
         /\ a \in DOMAIN ctl'.instruments => ctl'.instruments[a] = i

\* C22 (under Spec): add_instrument with an address argument uses the
\* argument as the effective address, for every bus address, 0 included,
\* whatever the instrument's own address is; without an argument it uses
\* the instrument's own address.
C22_ExplicitAddressIsEffective ==
    [][op'.name = "add_instrument" =>
          IF op'.address # NoneV THEN Effective(op'.address.v, op'.i)
          ELSE inst[op'.i].address # NoneV =>
                   Effective(inst[op'.i].address.v, op'.i)]_vars

\* add_instrument(instrument, 0) on an instrument whose own address is 10
\* left it at 10 and stored it under 10
C22_Witness ==
    /\ op.name = "add_instrument"
    /\ op.address = IntV(0)
    /\ exc = NoExc
    /\ inst[op.i].address = IntV(10)
    /\ 10 \in DOMAIN ctl.instruments
    /\ ctl.instruments[10] = op.i
    /\ 0 \notin DOMAIN ctl.instruments
    /\ bridge.addr = 10

\* the same statement for the arguments other than 0
C22_NonzeroArgument ==
    [][(op'.name = "add_instrument" /\ op'.address # IntV(0)) =>
          IF op'.address # NoneV THEN Effective(op'.address.v, op'.i)
          ELSE inst[op'.i].address # NoneV =>
                   Effective(inst[op'.i].address.v, op'.i)]_vars

\* C23 (under Spec): when an attached instrument invokes a query, the
\* `++read eoi` line is written, and the answer read, while the bridge has
\* the instrument's own address selected, whatever instrument was served
\* before.
C23_QueryReadsOwnDevice ==
    [][(/\ op'.name = "invoke"
        /\ op'.container = "query"
        /\ op'.entry \in DOMAIN inst[op'.i].query.attrs
        /\ ~IsNone(inst[op'.i].connection)
        /\ inst[op'.i].address # NoneV) =>
          /\ exc' = NoExc
          /\ tx'[Len(tx')] = Line(ReadEoiText)
          /\ bridge'.addr = inst[op'.i].address.v
          /\ Len(rd') = 1
          /\ rd'[1].at = inst[op'.i].address.v
          /\ rd'[1].after = Len(tx')
          /\ tx'[Len(tx') - 1] = Line(inst[op'.i].query.attrs[op'.entry].command_text
                                         \o <<"?">>)]_vars

\* two instruments are stored at different addresses, and the one that
\* queries had to select its address first
C23_Witness ==
    /\ op.name = "invoke"
    /\ op.container = "query"
    /\ DOMAIN ctl.instruments = {0, 10}
    /\ ctl.instruments[0] # ctl.instruments[10]
    /\ inst[ctl.instruments[0]].address = IntV(0)
    /\ inst[ctl.instruments[10]].address = IntV(10)
    /\ Len(tx) = 3
    /\ tx[1] = Line(AddrFormat(inst[op.i].address.v))
    /\ Len(rd) = 1
    /\ rd[1].at = inst[op.i].address.v
    /\ ret = BytesV(strip(IdentReply))

\* C24 (under Spec): every key k of the controller's instrument map maps
\* to an instrument whose own address is k, so that no two stored
\* instruments have the same address.
C24_KeysAreAddresses ==
    /\ \A k \in DOMAIN ctl.instruments :
           inst[ctl.instruments[k]].address = IntV(k)
    /\ \A j, k \in DOMAIN ctl.instruments :
           (ctl.instruments[j] # ctl.instruments[k]) =>
               inst[ctl.instruments[j]].address # inst[ctl.instruments[k]].address

\* the instrument stored under 10 was given the address 0, which the
\* instrument stored under 0 has
C24_Witness ==
    /\ op.name = "Instrument.set_address"
    /\ op.address = IntV(0)
    /\ DOMAIN ctl.instruments = {0, 10}
    /\ ctl.instruments[10] = op.i
    /\ ctl.instruments[0] # op.i
    /\ inst[op.i].address = IntV(0)
    /\ inst[ctl.instruments[0]].address = IntV(0)

\* C26 (under CtlSpec): once the controller is constructed, its cached
\* mode is 0 or 1, and every `++mode n` line of a call has n in {0, 1}.
C26_ModeIsZeroOrOne ==
    Constructed =>
        /\ ctl.mode \in {IntV(0), IntV(1)}
        /\ \A k \in 1..Len(tx) :
               StartsWith(tx[k], ModeText \o <<" ">>) =>
                   tx[k] \in {Line(ModeFormat(0)), Line(ModeFormat(1))}

\* set_mode(2) wrote `++mode 2` and cached 2
C26_Witness ==
    /\ Constructed
    /\ op.name = "set_mode"
    /\ op.mode = IntV(2)
    /\ exc = NoExc
    /\ tx = <<Line(ModeFormat(2))>>
    /\ ctl.mode = IntV(2)

\* C25 (under ThreadSpec): with two threads in Instrument.write at once,
\* on instruments at different addresses, every payload line is written
\* while the bridge has the address of the writing thread's instrument
\* selected (so no `++addr` line of the other thread came between the
\* thread's own selection and its payload).
C25_PayloadAtOwnAddress ==
    [][op'.name = "write: payload" =>
          /\ tx' = <<Line(threads[op'.t].command)>>
          /\ bridge.addr = inst[op'.i].address.v
          /\ bridge'.addr = inst[op'.i].address.v]_vars

\* a thread wrote its payload while the other thread, in the middle of its
\* own call, had selected the other instrument's address
C25_Witness ==
    /\ op.name = "write: payload"
    /\ tx \in {<<Line(RST)>>, <<Line(IDN \o <<"?">>)>>}
    /\ bridge.addr # inst[op.i].address.v
    /\ \E t \in Threads \ {op.t} :
          /\ threads[t].pc \in {"store", "write"}
          /\ bridge.addr = inst[Caller[t]].address.v

=============================================================================
